---- MODULE Spec2Model ----
(***************************************************************************)
(* O3SerialWriter (src/src/O3SerialWriter.h): a line-oriented logging      *)
(* facade over an Arduino Stream.  The model keeps the writer's fields,    *)
(* the text received by every stream, and the millisecond clock.           *)
(*                                                                         *)
(* Text is a sequence of one-character strings.  A stream is the sequence  *)
(* of the writes it received; every write is a record                      *)
(*   [k |-> which code site wrote it, lv |-> level of the public call,     *)
(*    txt |-> the characters written]                                      *)
(* so the bytes of a stream are the concatenation of the txt fields.       *)
(***************************************************************************)
EXTENDS Integers, Sequences, FiniteSets

(* ---------------------------- bounds ---------------------------------- *)
MaxSink  == 6      \* writes a stream holds at most (Spec)
MaxParts == 3      \* most parts of one variadic call
MaxText  == 5      \* writes a stream holds at most (SpecText)
MaxLong  == 33     \* characters of the longest configuration string (SpecCopy)
MaxShort == 5      \* writes each stream holds at most (SpecSinks)

(* ------------------------- O3LogLevel --------------------------------- *)
Debug == 0
Info  == 1
Warn  == 2
Error == 3
None  == 255

O3LogLevel == {Debug, Info, Warn, Error, None}
ApiLevels  == {Debug, Info, Warn, Error}

defaultLevel == Info

prefixMaxLen  == 32
partSepMaxLen == 8

(* --------------------------- text ------------------------------------- *)
NL == <<"\n">>

Digit(d) == CASE d = 0 -> "0" [] d = 1 -> "1" [] d = 2 -> "2" [] d = 3 -> "3"
              [] d = 4 -> "4" [] d = 5 -> "5" [] d = 6 -> "6" [] d = 7 -> "7"
              [] d = 8 -> "8" [] d = 9 -> "9"

RECURSIVE printNumber(_)
printNumber(n) == IF n < 10 THEN <<Digit(n)>>
                  ELSE printNumber(n \div 10) \o <<Digit(n % 10)>>

(* A const char* argument: the null pointer, or a terminated string.       *)
NullPtr == [null |-> TRUE, s |-> <<>>]
CStr(s) == [null |-> FALSE, s |-> s]

(* ------------------------- inputs ------------------------------------- *)
Streams == {1, 2}
NoSink  == 0

Opt(p, m, l, min, sep) ==
  [prefix |-> p, showMillis |-> m, showLevel |-> l, minLevel |-> min,
   partSeparator |-> sep]

\* a terminated string of n characters, the i-th being the digit i mod 10
Str(n) == CStr([i \in 1..n |-> Digit(i % 10)])

NET == <<"N", "E", "T">>
BAR == <<" ", "|", " ">>

PartLists(values) == UNION {[1..n -> values] : n \in 2..MaxParts}

(* The fields of O3SerialWriter (O3SerialWriter.h:141-160), by their names: *)
(*   out                  the attached stream, NoSink for nullptr            *)
(*   prefixBuffer,        the terminated strings the two buffers hold        *)
(*   partSeparatorBuffer                                                     *)
(* and around them                                                           *)
(*   sinks[s]   the writes stream s has received                             *)
(*   clock      the last value millis() returned                             *)
(*   last       history: the public call made last (Call, Conf)              *)
(*   halted     history: the level of the line that was open when            *)
(*              setEnabled(false) reset it, until the next write passes      *)
VARIABLES out, enabled, showMillis, showLevel, minLevel, lineOpen, activeLevel,
          prefixBuffer, partSeparatorBuffer, sinks, clock, last, halted

config == <<showMillis, showLevel, minLevel, prefixBuffer, partSeparatorBuffer>>
vars   == <<out, enabled, showMillis, showLevel, minLevel, lineOpen, activeLevel,
            prefixBuffer, partSeparatorBuffer, sinks, clock, last, halted>>

NoLevel == -1

(* --------------------------- helpers ---------------------------------- *)
Tok(k, lv, txt) == [k |-> k, lv |-> lv, txt |-> txt]

\* the copy loops of copyPrefix / copyPartSeparator: the index the loop stops at
\* the copy loop leaving no room for the terminator
RECURSIVE copyLoop_noRoom(_, _, _)
copyLoop_noRoom(value, maxLen, i) ==
  IF i < maxLen /\ i < Len(value) THEN copyLoop_noRoom(value, maxLen, i + 1) ELSE i

RECURSIVE copyLoop(_, _, _)
copyLoop(value, maxLen, i) ==
  IF i + 1 < maxLen /\ i < Len(value) THEN copyLoop(value, maxLen, i + 1) ELSE i

copyPrefix(value) ==
  LET v == IF value.null THEN <<>> ELSE value.s
  IN  SubSeq(v, 1, copyLoop(v, prefixMaxLen, 0))

\* copyPartSeparator copying an empty or null value as it is
copyPartSeparator_asGiven(value) ==
  LET v == IF value.null THEN <<>> ELSE value.s
  IN  SubSeq(v, 1, copyLoop(v, partSepMaxLen, 0))

copyPartSeparator(value) ==
  LET v == IF value.null \/ Len(value.s) = 0 THEN <<" ">> ELSE value.s
  IN  SubSeq(v, 1, copyLoop(v, partSepMaxLen, 0))

resetLineState == [lineOpen |-> FALSE, activeLevel |-> defaultLevel]

\* canWrite without the comparison with the threshold
canWrite_noThreshold(level) ==
  /\ enabled
  /\ out # NoSink
  /\ minLevel # None

\* canWrite taking the level None for "write nothing"
canWrite_noneLevel(level) ==
  /\ enabled
  /\ out # NoSink
  /\ minLevel # None
  /\ level # None
  /\ level >= minLevel

\* canWrite letting every call that continues the open line pass
canWrite_openLine(level) ==
  /\ enabled
  /\ out # NoSink
  /\ \/ lineOpen /\ level = activeLevel
     \/ minLevel # None /\ level >= minLevel

\* canWrite without the test of the stream pointer
canWrite_noSinkTest(level) ==
  /\ enabled
  /\ minLevel # None
  /\ level >= minLevel

canWrite(level) ==
  /\ enabled
  /\ out # NoSink
  /\ minLevel # None
  /\ level >= minLevel

levelText(level) ==
  CASE level = Debug -> <<"D", "E", "B", "U", "G">>
    [] level = Info  -> <<"I", "N", "F", "O">>
    [] level = Warn  -> <<"W", "A", "R", "N">>
    [] level = Error -> <<"E", "R", "R", "O", "R">>
    [] OTHER         -> <<"L", "O", "G">>

\* writeHeader printing the brackets of an empty prefix too
writeHeader_emptyPrefix(level, now) ==
     <<"[">> \o prefixBuffer \o <<"]", " ">>
  \o (IF showMillis THEN printNumber(now) \o <<" ">> ELSE <<>>)
  \o (IF showLevel THEN levelText(level) \o <<":", " ">> ELSE <<>>)

writeHeader(level, now) ==
     (IF prefixBuffer # <<>> THEN <<"[">> \o prefixBuffer \o <<"]", " ">> ELSE <<>>)
  \o (IF showMillis THEN printNumber(now) \o <<" ">> ELSE <<>>)
  \o (IF showLevel THEN levelText(level) \o <<":", " ">> ELSE <<>>)

\* ensureLineHeader writing a header on every call
ensureLineHeader_always(level, now) ==
  [w |-> <<Tok("hdr", level, writeHeader(level, now))>>,
   lineOpen |-> TRUE, activeLevel |-> level]

\* ensureLineHeader changing level without ending the open line
ensureLineHeader_noBreak(level, now) ==
  IF ~lineOpen \/ level # activeLevel
  THEN [w |-> <<Tok("hdr", level, writeHeader(level, now))>>,
        lineOpen |-> TRUE, activeLevel |-> level]
  ELSE [w |-> <<>>, lineOpen |-> lineOpen, activeLevel |-> activeLevel]

\* the writes ensureLineHeader makes (w) and the line state it leaves
ensureLineHeader(level, now) ==
  IF ~lineOpen
  THEN [w |-> <<Tok("hdr", level, writeHeader(level, now))>>,
        lineOpen |-> TRUE, activeLevel |-> level]
  ELSE IF level # activeLevel
  THEN [w |-> <<Tok("nl", level, NL), Tok("hdr", level, writeHeader(level, now))>>,
        lineOpen |-> TRUE, activeLevel |-> level]
  ELSE [w |-> <<>>, lineOpen |-> lineOpen, activeLevel |-> activeLevel]

writePart(level, value) == <<Tok("val", level, value)>>

\* writeParts printing the separator after every part, the last included
RECURSIVE writeParts_trailing(_, _)
writeParts_trailing(level, ps) ==
  writePart(level, Head(ps))
  \o <<Tok("sep", level, partSeparatorBuffer)>>
  \o (IF Len(ps) - 1 > 0 THEN writeParts_trailing(level, Tail(ps)) ELSE <<>>)

RECURSIVE writeParts(_, _)
writeParts(level, ps) ==
  writePart(level, Head(ps))
  \o (IF Len(ps) - 1 > 0
      THEN <<Tok("sep", level, partSeparatorBuffer)>> \o writeParts(level, Tail(ps))
      ELSE <<>>)

\* history of a write call: the call and the state it was made in.  Of a call
\* the gate stops, only the call and the line state it found are kept.
Call(op, level, n) ==
  IF canWrite(level)
  THEN [op |-> op, lv |-> level, n |-> n, pass |-> TRUE,
        open |-> lineOpen, active |-> activeLevel, halted |-> halted,
        mark |-> IF out = NoSink THEN 0 ELSE Len(sinks[out])]
  ELSE [op |-> op, lv |-> NoLevel, n |-> 0, pass |-> FALSE,
        open |-> lineOpen, active |-> activeLevel, halted |-> NoLevel, mark |-> 0]

\* history of a call that is no write call: the call and whether a line was open
Conf(op) ==
  [op |-> op, lv |-> NoLevel, n |-> 0, pass |-> FALSE,
   open |-> lineOpen, active |-> activeLevel, halted |-> NoLevel, mark |-> 0]

Room(max) == out # NoSink => Len(sinks'[out]) <= max

(* ------------------------ initial state ------------------------------- *)
Init ==
  /\ out = NoSink
  /\ enabled = TRUE
  /\ showMillis = TRUE
  /\ showLevel = TRUE
  /\ minLevel = Debug
  /\ lineOpen = FALSE
  /\ activeLevel = Info
  /\ prefixBuffer = <<>>
  /\ partSeparatorBuffer = <<" ">>
  /\ sinks = [s \in Streams |-> <<>>]
  /\ clock = 0
  /\ last = [op |-> "new", lv |-> NoLevel, n |-> 0, pass |-> FALSE,
             open |-> FALSE, active |-> Info, halted |-> NoLevel, mark |-> 0]
  /\ halted = NoLevel

(* ------------------------ configuration ------------------------------- *)
\* configure without the reset of the line state
configure_noReset(options) ==
  /\ prefixBuffer' = copyPrefix(options.prefix)
  /\ partSeparatorBuffer' = copyPartSeparator(options.partSeparator)
  /\ showMillis' = options.showMillis
  /\ showLevel' = options.showLevel
  /\ minLevel' = options.minLevel
  /\ UNCHANGED <<lineOpen, activeLevel>>

configure(options) ==
  /\ prefixBuffer' = copyPrefix(options.prefix)
  /\ partSeparatorBuffer' = copyPartSeparator(options.partSeparator)
  /\ showMillis' = options.showMillis
  /\ showLevel' = options.showLevel
  /\ minLevel' = options.minLevel
  /\ lineOpen' = resetLineState.lineOpen
  /\ activeLevel' = resetLineState.activeLevel

\* begin attaching the stream without the reset of the line state
Begin_noReset(stream, options) ==
  /\ out' = stream
  /\ configure_noReset(options)
  /\ last' = Conf("begin")
  /\ UNCHANGED <<enabled, sinks, clock, halted>>

Begin(stream, options) ==
  /\ out' = stream
  /\ configure(options)
  /\ last' = Conf("begin")
  /\ UNCHANGED <<enabled, sinks, clock, halted>>

Configure(options) ==
  /\ configure(options)
  /\ last' = Conf("configure")
  /\ UNCHANGED <<out, enabled, sinks, clock, halted>>

\* setPrefix resetting the line state, as configure does
SetPrefix_reset(newPrefix) ==
  /\ prefixBuffer' = copyPrefix(newPrefix)
  /\ lineOpen' = resetLineState.lineOpen
  /\ activeLevel' = resetLineState.activeLevel
  /\ last' = Conf("setPrefix")
  /\ UNCHANGED <<out, enabled, showMillis, showLevel, minLevel,
                 partSeparatorBuffer, sinks, clock, halted>>

SetPrefix(newPrefix) ==
  /\ prefixBuffer' = copyPrefix(newPrefix)
  /\ last' = Conf("setPrefix")
  /\ UNCHANGED <<out, enabled, showMillis, showLevel, minLevel, lineOpen, activeLevel,
                 partSeparatorBuffer, sinks, clock, halted>>

SetMinLevel(level) ==
  /\ minLevel' = level
  /\ last' = Conf("setMinLevel")
  /\ UNCHANGED <<out, enabled, showMillis, showLevel, lineOpen, activeLevel,
                 prefixBuffer, partSeparatorBuffer, sinks, clock, halted>>

SetPartSeparator(value) ==
  /\ partSeparatorBuffer' = copyPartSeparator(value)
  /\ last' = Conf("setPartSeparator")
  /\ UNCHANGED <<out, enabled, showMillis, showLevel, minLevel, lineOpen, activeLevel,
                 prefixBuffer, sinks, clock, halted>>

\* setEnabled without the reset of the line state
SetEnabled_noReset(isEnabled) ==
  /\ enabled' = isEnabled
  /\ halted' = IF ~isEnabled /\ lineOpen THEN activeLevel ELSE halted
  /\ last' = Conf(IF isEnabled THEN "enable" ELSE "disable")
  /\ UNCHANGED <<out, showMillis, showLevel, minLevel, lineOpen, activeLevel,
                 prefixBuffer, partSeparatorBuffer, sinks, clock>>

\* setEnabled resetting the line state whatever the flag
SetEnabled_resetAlways(isEnabled) ==
  /\ enabled' = isEnabled
  /\ lineOpen' = resetLineState.lineOpen
  /\ activeLevel' = resetLineState.activeLevel
  /\ halted' = IF ~isEnabled /\ lineOpen THEN activeLevel ELSE halted
  /\ last' = Conf(IF isEnabled THEN "enable" ELSE "disable")
  /\ UNCHANGED <<out, showMillis, showLevel, minLevel, prefixBuffer,
                 partSeparatorBuffer, sinks, clock>>

SetEnabled(isEnabled) ==
  /\ enabled' = isEnabled
  /\ IF ~isEnabled
     THEN /\ lineOpen' = resetLineState.lineOpen
          /\ activeLevel' = resetLineState.activeLevel
          /\ halted' = IF lineOpen THEN activeLevel ELSE halted
     ELSE UNCHANGED <<lineOpen, activeLevel, halted>>
  /\ last' = Conf(IF isEnabled THEN "enable" ELSE "disable")
  /\ UNCHANGED <<out, showMillis, showLevel, minLevel, prefixBuffer,
                 partSeparatorBuffer, sinks, clock>>

(* --------------------------- writes ----------------------------------- *)
\* millis() is read once for every header written with showMillis set; the
\* value read is `clock`, which the call finds advanced to `now`.
Elapse(level, now) ==
  /\ now >= clock
  /\ clock' = IF canWrite(level) /\ showMillis
                 /\ (~lineOpen \/ level # activeLevel)
              THEN now ELSE clock

\* the frame every write call shares: gate, the writes of the call (w, header
\* included) and the line state the call leaves (st)
Written(level, w, st, max) ==
  /\ IF canWrite(level)
     THEN /\ sinks' = [sinks EXCEPT ![out] = @ \o w]
          /\ lineOpen' = st.lineOpen
          /\ activeLevel' = st.activeLevel
          /\ halted' = NoLevel
     ELSE UNCHANGED <<sinks, lineOpen, activeLevel, halted>>
  /\ Room(max)
  /\ UNCHANGED <<out, enabled, showMillis, showLevel, minLevel, prefixBuffer,
                 partSeparatorBuffer>>

printWithLevel(level, value, now, max) ==
  /\ Elapse(level, now)
  /\ LET h == ensureLineHeader(level, now)
     IN  Written(level, h.w \o <<Tok("val", level, value)>>, h, max)
  /\ last' = Call("print", level, 1)

\* printlnWithLevel without the reset of the line state after the break
printlnWithLevel_noReset(level, value, now, max) ==
  /\ Elapse(level, now)
  /\ LET h == ensureLineHeader(level, now)
     IN  Written(level, h.w \o <<Tok("val", level, value), Tok("nl", level, NL)>>,
                 h, max)
  /\ last' = Call("println", level, 1)

printlnWithLevel(level, value, now, max) ==
  /\ Elapse(level, now)
  /\ LET h == ensureLineHeader(level, now)
     IN  Written(level, h.w \o <<Tok("val", level, value), Tok("nl", level, NL)>>,
                 resetLineState, max)
  /\ last' = Call("println", level, 1)

print(value, now, max) == printWithLevel(defaultLevel, value, now, max)

println(value, now, max) == printlnWithLevel(defaultLevel, value, now, max)

\* println() writing the line break without ensureLineHeader
printlnEmpty_noHeader(now, max) ==
  /\ Elapse(defaultLevel, now)
  /\ Written(defaultLevel, <<Tok("nl", defaultLevel, NL)>>, resetLineState, max)
  /\ last' = Call("newline", defaultLevel, 0)

printlnEmpty(now, max) ==
  /\ Elapse(defaultLevel, now)
  /\ LET h == ensureLineHeader(defaultLevel, now)
     IN  Written(defaultLevel, h.w \o <<Tok("nl", defaultLevel, NL)>>, resetLineState,
                 max)
  /\ last' = Call("newline", defaultLevel, 0)

\* line without the reset of the line state after the break
line_noReset(level, message, now, max) ==
  /\ Elapse(level, now)
  /\ LET h == ensureLineHeader(level, now)
     IN  Written(level, h.w \o <<Tok("val", level, message), Tok("nl", level, NL)>>,
                 h, max)
  /\ last' = Call("line", level, 1)

line(level, message, now, max) ==
  /\ Elapse(level, now)
  /\ LET h == ensureLineHeader(level, now)
     IN  Written(level, h.w \o <<Tok("val", level, message), Tok("nl", level, NL)>>,
                 resetLineState, max)
  /\ last' = Call("line", level, 1)

parts(level, ps, now, max) ==
  /\ Elapse(level, now)
  /\ LET h == ensureLineHeader(level, now)
     IN  Written(level, h.w \o writeParts(level, ps) \o <<Tok("nl", level, NL)>>,
                 resetLineState, max)
  /\ last' = Call("parts", level, Len(ps))

(* ------------------------ specifications ------------------------------ *)
\* I: the sets the calls draw their arguments from
NextOn(I) ==
  \/ \E s \in I.streams, o \in I.options : Begin(s, o)
  \/ \E o \in I.options : Configure(o)
  \/ \E p \in I.prefixes : SetPrefix(p)
  \/ \E l \in I.minLevels : SetMinLevel(l)
  \/ \E v \in I.separators : SetPartSeparator(v)
  \/ \E b \in I.flags : SetEnabled(b)
  \/ \E v \in I.values, now \in I.times : print(v, now, I.room)
  \/ \E v \in I.values, now \in I.times : println(v, now, I.room)
  \/ \E now \in I.times : printlnEmpty(now, I.room)
  \/ \E l \in I.levels, v \in I.values, now \in I.times : printWithLevel(l, v, now, I.room)
  \/ \E l \in I.levels, v \in I.values, now \in I.times :
       printlnWithLevel(l, v, now, I.room)
  \/ \E l \in I.apiLevels, m \in I.values, now \in I.times : line(l, m, now, I.room)
  \/ \E l \in I.partLevels, ps \in PartLists(I.partValues), now \in I.times :
       parts(l, ps, now, I.room)

\* the line-state machine: every level, one configuration text
LineInputs ==
  [streams |-> {1}, room |-> MaxSink, apiLevels |-> ApiLevels, flags |-> BOOLEAN,
   options |-> {Opt(CStr(<<>>), FALSE, TRUE, Debug, CStr(<<" ">>))},
   prefixes |-> {CStr(<<>>)}, separators |-> {CStr(<<>>)},
   minLevels |-> {Debug, Warn, None},
   levels |-> {Debug, Warn, None}, values |-> {<<"y">>}, times |-> {0},
   partLevels |-> {Info, Warn}, partValues |-> {<<"a">>}]

Next == NextOn(LineInputs)

Spec == Init /\ [][Next]_vars

\* the configuration text: every option, two levels
TextInputs ==
  [streams |-> {1}, room |-> MaxText, apiLevels |-> {Debug, Warn}, flags |-> {TRUE},
   options |-> {Opt(CStr(<<>>), TRUE, TRUE, Debug, CStr(<<" ">>)),
                Opt(CStr(NET), FALSE, TRUE, Warn, CStr(<<" ">>)),
                Opt(NullPtr, FALSE, FALSE, Debug, CStr(BAR))},
   prefixes |-> {NullPtr, CStr(NET)}, separators |-> {CStr(<<>>), CStr(BAR)},
   minLevels |-> {Warn},
   levels |-> {None}, values |-> {<<"y">>}, times |-> {1234},
   partLevels |-> {Error}, partValues |-> {<<"a">>}]

NextText == NextOn(TextInputs)

SpecText == Init /\ [][NextText]_vars

\* the variadic calls: every separator, up to MaxParts parts
PartsInputs ==
  [streams |-> {1}, room |-> 2 * MaxParts + 1, apiLevels |-> {Info}, flags |-> {TRUE},
   options |-> {Opt(CStr(<<>>), FALSE, TRUE, Debug, CStr(<<" ">>))},
   prefixes |-> {CStr(<<>>)}, separators |-> {CStr(<<>>), CStr(BAR)},
   minLevels |-> {Debug, Warn},
   levels |-> {Warn}, values |-> {<<"y">>}, times |-> {0},
   partLevels |-> {Info, Warn}, partValues |-> {<<"a">>, <<"b">>}]

NextParts == NextOn(PartsInputs)

SpecParts == Init /\ [][NextParts]_vars

\* the two buffers: strings shorter than, as long as and longer than they hold
CopyInputs ==
  [streams |-> {1}, room |-> MaxText, apiLevels |-> {Info}, flags |-> {TRUE},
   options |-> {Opt(CStr(<<>>), FALSE, TRUE, Debug, CStr(<<" ">>)),
                Opt(Str(MaxLong), FALSE, TRUE, Debug, Str(MaxLong)),
                Opt(NullPtr, FALSE, TRUE, Debug, NullPtr)},
   prefixes |-> {NullPtr, Str(prefixMaxLen - 1), Str(prefixMaxLen), Str(MaxLong)},
   separators |-> {NullPtr, CStr(<<>>), Str(partSepMaxLen - 1), Str(partSepMaxLen),
                   Str(MaxLong)},
   minLevels |-> {Debug},
   levels |-> {Warn}, values |-> {<<"y">>}, times |-> {0},
   partLevels |-> {Info}, partValues |-> {<<"a">>}]

NextCopy == NextOn(CopyInputs)

SpecCopy == Init /\ [][NextCopy]_vars

\* the clock: two values of millis(), timestamps shown and hidden
ClockInputs ==
  [streams |-> {1}, room |-> MaxSink, apiLevels |-> {Info, Warn}, flags |-> {TRUE},
   options |-> {Opt(CStr(<<>>), TRUE, TRUE, Debug, CStr(<<" ">>)),
                Opt(CStr(<<>>), FALSE, TRUE, Debug, CStr(<<" ">>))},
   prefixes |-> {CStr(<<>>)}, separators |-> {CStr(<<>>)},
   minLevels |-> {Debug},
   levels |-> {Warn}, values |-> {<<"y">>}, times |-> {0, 1234},
   partLevels |-> {Info}, partValues |-> {<<"a">>}]

NextClock == NextOn(ClockInputs)

SpecClock == Init /\ [][NextClock]_vars

\* two streams: begin attaches either, at any time
SinkInputs ==
  [streams |-> Streams, room |-> MaxShort, apiLevels |-> {Info}, flags |-> BOOLEAN,
   options |-> {Opt(CStr(<<>>), FALSE, TRUE, Debug, CStr(<<" ">>))},
   prefixes |-> {CStr(<<>>)}, separators |-> {CStr(<<>>)},
   minLevels |-> {Debug},
   levels |-> {Warn}, values |-> {<<"y">>}, times |-> {0},
   partLevels |-> {Info}, partValues |-> {<<"a">>}]

NextSinks == NextOn(SinkInputs)

SpecSinks == Init /\ [][NextSinks]_vars

\* the gate: every threshold, calls at the level None
GateInputs ==
  [streams |-> {1}, room |-> MaxShort, apiLevels |-> {Error}, flags |-> BOOLEAN,
   options |-> {Opt(CStr(<<>>), FALSE, TRUE, Debug, CStr(<<" ">>))},
   prefixes |-> {CStr(<<>>)}, separators |-> {CStr(<<>>)},
   minLevels |-> O3LogLevel,
   levels |-> {None}, values |-> {<<"y">>}, times |-> {0},
   partLevels |-> {Info}, partValues |-> {<<"a">>}]

NextGate == NextOn(GateInputs)

SpecGate == Init /\ [][NextGate]_vars

(* ======================= checked properties =========================== *)
WriteOps    == {"print", "println", "newline", "line", "parts"}
Terminating == {"println", "newline", "line", "parts"}
Payload     == {"val", "sep"}

\* what the last call wrote
Emitted ==
  IF last.pass THEN SubSeq(sinks[out], last.mark + 1, Len(sinks[out])) ELSE <<>>

Count(seq, k) == Cardinality({i \in DOMAIN seq : seq[i].k = k})

LastIdx(seq, k) ==
  LET at == {i \in DOMAIN seq : seq[i].k = k}
  IN  IF at = {} THEN 0 ELSE CHOOSE i \in at : \A j \in at : j <= i

RECURSIVE Bytes(_)
Bytes(seq) == IF seq = <<>> THEN <<>> ELSE Head(seq).txt \o Bytes(Tail(seq))

\* a step that is a write call at level l, with arguments drawn from I
WriteCall(I, l) ==
  \/ /\ last'.op = "print"
     /\ \E v \in I.values, now \in I.times : printWithLevel(l, v, now, I.room)
  \/ /\ last'.op = "println"
     /\ \E v \in I.values, now \in I.times : printlnWithLevel(l, v, now, I.room)
  \/ /\ last'.op = "line"
     /\ \E v \in I.values, now \in I.times : line(l, v, now, I.room)
  \/ /\ last'.op = "parts"
     /\ \E ps \in PartLists(I.partValues), now \in I.times : parts(l, ps, now, I.room)
  \/ /\ last'.op = "newline" /\ l = defaultLevel
     /\ \E now \in I.times : printlnEmpty(now, I.room)

GateClosed(l) == ~enabled \/ out = NoSink \/ minLevel = None \/ l < minLevel

\* C1: a write call at level L made while the writer is disabled, or has no
\* sink, or has threshold None, or has L below the threshold, writes nothing
\* and leaves the line state and the whole configuration as they were.
C1_GatedCallHasNoEffect ==
  [][last'.op \in WriteOps =>
       \A l \in O3LogLevel :
         (GateClosed(l) /\ WriteCall(LineInputs, l)) =>
           UNCHANGED <<out, enabled, showMillis, showLevel, minLevel, lineOpen,
                       activeLevel, prefixBuffer, partSeparatorBuffer, sinks, clock>>
    ]_vars

\* a call below the threshold was dropped while a line was open
C1_Witness ==
  /\ last.op = "line" /\ ~last.pass
  /\ enabled /\ out # NoSink /\ minLevel = Warn
  /\ lineOpen /\ activeLevel = Warn /\ Len(sinks[out]) = 2

\* the line the last call ended: from the last header of the stream to its end
EndedLine ==
  LET s == sinks[out] IN SubSeq(s, LastIdx(s, "hdr"), Len(s))

\* C2: from a closed line, k >= 0 passing writeAt calls at level L and then a
\* terminating call at L put one header on the line, before the first
\* payload, and one line break, after the last payload: the call that finds
\* the line closed writes the header first, a call that finds it open at L
\* writes no header, and the terminated line is header, payload, break.
C2_OneHeaderOneBreak ==
  (last.pass /\ (last.open => last.active = last.lv)) =>
    /\ last.op = "print" =>
         /\ Emitted = IF last.open THEN <<Emitted[Len(Emitted)]>>
                      ELSE <<Emitted[1], Emitted[2]>>
         /\ Emitted[Len(Emitted)].k = "val"
         /\ ~last.open => (Emitted[1].k = "hdr" /\ Emitted[1].lv = last.lv)
         /\ lineOpen /\ activeLevel = last.lv
    /\ last.op \in Terminating =>
         LET ln == EndedLine
             h  == LastIdx(sinks[out], "hdr")
         IN  /\ h > 0
             /\ IF last.open THEN h <= last.mark ELSE h = last.mark + 1
             /\ ln[1].lv = last.lv
             /\ Count(ln, "hdr") = 1
             /\ Count(ln, "nl") = 1 /\ ln[Len(ln)].k = "nl"
             /\ \A i \in 2..(Len(ln) - 1) : ln[i].k \in Payload
             /\ Count(Emitted, "hdr") = (IF last.open THEN 0 ELSE 1)

\* two writeAt calls at Warn and then writelnAt at Warn
C2_Witness ==
  /\ last.pass /\ last.op = "println" /\ last.open
  /\ last.active = Warn /\ last.lv = Warn
  /\ Count(EndedLine, "val") = 3 /\ Len(EndedLine) = 5

\* C3: a passing write call at level B on a line open at another level A
\* writes a line break, then the header of B, then its payload, and leaves
\* the line open at B (closed, if the call terminates the line).
C3_LevelChangeBreaksLine ==
  (last.pass /\ last.open /\ last.active # last.lv) =>
    /\ Len(Emitted) >= 3
    /\ Emitted[1].k = "nl"
    /\ Emitted[2].k = "hdr" /\ Emitted[2].lv = last.lv
    /\ \A i \in 3..Len(Emitted) :
         \/ Emitted[i].k \in Payload
         \/ i = Len(Emitted) /\ Emitted[i].k = "nl" /\ last.op \in Terminating
    /\ last.op # "newline" => Emitted[3].k = "val"
    /\ sinks[out][last.mark].k # "nl"
    /\ IF last.op = "print" THEN lineOpen /\ activeLevel = last.lv
       ELSE ~lineOpen /\ Emitted[Len(Emitted)].k = "nl"

\* writeAt(Warn) on a line open at Info
C3_Witness ==
  /\ last.pass /\ last.open /\ last.op = "print"
  /\ last.active = Info /\ last.lv = Warn

Kinds(seq) == [i \in DOMAIN seq |-> seq[i].k]

\* C4: no line of a stream carries two headers: between any two headers
\* written to the same stream there is a line break.
C4_OneHeaderPerLine ==
  \A s \in Streams :
    \A i, j \in DOMAIN sinks[s] :
      (i < j /\ sinks[s][i].k = "hdr" /\ sinks[s][j].k = "hdr") =>
        \E m \in (i + 1)..(j - 1) : sinks[s][m].k = "nl"

\* C5: after setEnabled(false) has reset an open line, the next write call
\* that passes the gate writes a header before its payload, whatever its level.
C5_FreshHeaderAfterDisable ==
  (last.pass /\ last.halted # NoLevel) =>
    /\ ~last.open
    /\ Emitted[1].k = "hdr" /\ Emitted[1].lv = last.lv
    /\ \A i \in DOMAIN Emitted : Emitted[i].k \in Payload => i > 1

\* writeAt(Warn) after a line open at Warn was disabled and logging re-enabled
C5_Witness ==
  /\ last.pass /\ last.op = "print"
  /\ last.halted = Warn /\ last.lv = Warn
  /\ Kinds(sinks[out]) = <<"hdr", "val", "hdr", "val">>

\* C6 as claimed: each passing logAt call writes one header, the message and
\* one line break, in whatever line state it is called, and closes the line.
C6_OneCallOneLine ==
  (last.op = "line" /\ last.pass) =>
    /\ Kinds(Emitted) = <<"hdr", "val", "nl">>
    /\ Emitted[1].lv = last.lv
    /\ ~lineOpen

\* C6 amended: each passing logAt call ends with the message and one line
\* break and leaves the line closed at the default level; it writes exactly
\* header, message, break when the line is closed, message, break alone when
\* a line is open at its level, and break, header, message, break when a
\* line is open at another level.
C6_LineCall ==
  (last.op = "line" /\ last.pass) =>
    /\ ~lineOpen /\ activeLevel = Info
    /\ Kinds(Emitted) = IF ~last.open THEN <<"hdr", "val", "nl">>
                        ELSE IF last.active = last.lv THEN <<"val", "nl">>
                        ELSE <<"nl", "hdr", "val", "nl">>
    /\ \A i \in DOMAIN Emitted : Emitted[i].k = "hdr" => Emitted[i].lv = last.lv

\* error(..) on a line open at Warn
C6_Witness ==
  /\ last.op = "line" /\ last.pass
  /\ last.open /\ last.active = Warn /\ last.lv = Error

(* the header of the output line format, as the specification words it *)
LabelOf(l) ==
  CASE l = Debug -> <<"D", "E", "B", "U", "G">>
    [] l = Info  -> <<"I", "N", "F", "O">>
    [] l = Warn  -> <<"W", "A", "R", "N">>
    [] l = Error -> <<"E", "R", "R", "O", "R">>
    [] OTHER     -> <<"L", "O", "G">>

ClockText(t) == CASE t = 0 -> <<"0">> [] t = 1234 -> <<"1", "2", "3", "4">>

HeaderOf(prefix, millis, label, t, l) ==
     (IF Len(prefix) > 0 THEN <<"[">> \o prefix \o <<"]", " ">> ELSE <<>>)
  \o (IF millis THEN ClockText(t) \o <<" ">> ELSE <<>>)
  \o (IF label THEN LabelOf(l) \o <<":", " ">> ELSE <<>>)

Reconfigured == {"begin", "configure"}

\* C7: configure and begin leave the line closed with activeLevel Info,
\* whatever the state before, and a write call that passes the gate on a
\* closed line starts with a header built from the stored configuration.
C7_ReconfigureClosesLine ==
  [][/\ last'.op \in Reconfigured => (~lineOpen' /\ activeLevel' = Info)
     /\ (~lineOpen /\ last'.pass) =>
          LET w == SubSeq(sinks'[out], Len(sinks[out]) + 1, Len(sinks'[out]))
          IN  w[1] = Tok("hdr", last'.lv,
                         HeaderOf(prefixBuffer, showMillis, showLevel, clock', last'.lv))
    ]_vars

\* configure stored the prefix NET while a line was open
C7_Witness ==
  /\ last.op = "configure" /\ last.open
  /\ ~lineOpen /\ prefixBuffer = NET
  /\ Kinds(sinks[out]) = <<"hdr", "val">>

\* C8: setPrefix, setPartSeparator and setMinLevel change their own field
\* alone: the line state, the enabled flag, the stream binding, the toggles,
\* the other fields and the text of every stream stay as they were.
C8_SettersChangeOneField ==
  [][/\ last'.op = "setPrefix" =>
          UNCHANGED <<out, enabled, showMillis, showLevel, minLevel, lineOpen,
                      activeLevel, partSeparatorBuffer, sinks, clock>>
     /\ last'.op = "setPartSeparator" =>
          UNCHANGED <<out, enabled, showMillis, showLevel, minLevel, lineOpen,
                      activeLevel, prefixBuffer, sinks, clock>>
     /\ last'.op = "setMinLevel" =>
          UNCHANGED <<out, enabled, showMillis, showLevel, lineOpen, activeLevel,
                      prefixBuffer, partSeparatorBuffer, sinks, clock>>
    ]_vars

\* setPrefix("NET") on an open line whose header was written without prefix
C8_Witness ==
  /\ last.op = "setPrefix" /\ last.open /\ lineOpen
  /\ prefixBuffer = NET
  /\ Kinds(sinks[out]) = <<"hdr", "val">>
  /\ sinks[out][1].txt = <<"1", "2", "3", "4", " ", "I", "N", "F", "O", ":", " ">>

\* C9: a passing logParts call with N >= 2 parts writes, after the header,
\* part 1, then separator and part for every later part, then one line
\* break: N - 1 separators, each the stored separator text, and closes the line.
C9_PartsJoined ==
  [][(last'.op = "parts" /\ last'.pass) =>
       \A ps \in PartLists(PartsInputs.partValues) :
         (/\ Len(ps) = last'.n
          /\ \E now \in PartsInputs.times :
               parts(last'.lv, ps, now, PartsInputs.room)) =>
           LET w    == SubSeq(sinks'[out], Len(sinks[out]) + 1, Len(sinks'[out]))
               n    == Len(ps)
               head == Len(w) - 2 * n
           IN  /\ n >= 2 /\ head >= 0
               /\ \A i \in 1..head : w[i].k \in {"hdr", "nl"}
               /\ \A i \in 1..n :
                    w[head + 2 * i - 1].k = "val" /\ w[head + 2 * i - 1].txt = ps[i]
               /\ \A i \in 1..(n - 1) :
                    /\ w[head + 2 * i].k = "sep"
                    /\ w[head + 2 * i].txt = partSeparatorBuffer
               /\ w[Len(w)].k = "nl"
               /\ Count(w, "sep") = n - 1
               /\ ~lineOpen'
    ]_vars

\* three parts joined by " | "
C9_Witness ==
  /\ last.op = "parts" /\ last.pass /\ last.n = 3
  /\ partSeparatorBuffer = BAR
  /\ Kinds(Emitted) = <<"hdr", "val", "sep", "val", "sep", "val", "nl">>
  /\ Emitted[3].txt = BAR

\* C10: a header for level L is '[' prefix '] ' if the prefix is not empty,
\* then the clock value and ' ' if showMillis, then the label of L and ': '
\* if showLevel; the label is DEBUG, INFO, WARN, ERROR and LOG for any other
\* value; with threshold Warn, prefix NET, showMillis off and showLevel on,
\* warn("y") writes '[NET] WARN: y' and a line break.
C10_HeaderText ==
  /\ \A i \in DOMAIN Emitted :
       Emitted[i].k = "hdr" =>
         Emitted[i].txt =
           HeaderOf(prefixBuffer, showMillis, showLevel, clock, Emitted[i].lv)
  /\ \A l \in {Error + 1, None - 1, None} : levelText(l) = <<"L", "O", "G">>
  /\ (/\ last.op = "line" /\ last.pass /\ ~last.open /\ last.lv = Warn
      /\ minLevel = Warn /\ prefixBuffer = NET /\ ~showMillis /\ showLevel) =>
       Bytes(Emitted) =
         <<"[", "N", "E", "T", "]", " ", "W", "A", "R", "N", ":", " ", "y", "\n">>

\* warn("y") in the configuration of the example
C10_Witness ==
  /\ last.op = "line" /\ last.pass /\ ~last.open /\ last.lv = Warn
  /\ minLevel = Warn /\ prefixBuffer = NET /\ ~showMillis /\ showLevel

Min(a, b) == IF a <= b THEN a ELSE b

FirstChars(s, n) == [i \in 1..Min(Len(s), n) |-> s[i]]

\* C11 as claimed: every prefix given to setPrefix, configure or begin is
\* stored as its first min(length, 31) characters, a null prefix as the empty
\* string, and every separator given to setPartSeparator, configure or begin
\* as its first min(length, 7) characters; the terminator is written inside
\* the 32-entry and the 8-entry buffer.
C11_StoredAsGiven ==
  [][/\ last'.op = "setPrefix" =>
          \A p \in CopyInputs.prefixes :
            SetPrefix(p) =>
              prefixBuffer' = IF p.null THEN <<>> ELSE FirstChars(p.s, 31)
     /\ last'.op = "setPartSeparator" =>
          \A v \in CopyInputs.separators :
            (~v.null /\ SetPartSeparator(v)) =>
              partSeparatorBuffer' = FirstChars(v.s, 7)
     /\ last'.op \in Reconfigured =>
          \A o \in CopyInputs.options :
            configure(o) =>
              /\ prefixBuffer' =
                   IF o.prefix.null THEN <<>> ELSE FirstChars(o.prefix.s, 31)
              /\ ~o.partSeparator.null =>
                   partSeparatorBuffer' = FirstChars(o.partSeparator.s, 7)
     /\ Len(prefixBuffer') + 1 <= 32
     /\ Len(partSeparatorBuffer') + 1 <= 8
    ]_vars

\* C11 amended: the prefix as claimed; a separator that is not empty is
\* stored as its first min(length, 7) characters, an empty or null one as a
\* single space; the terminator is written inside the 32-entry and the
\* 8-entry buffer.
C11_StoredTruncated ==
  [][/\ last'.op = "setPrefix" =>
          \A p \in CopyInputs.prefixes :
            SetPrefix(p) =>
              prefixBuffer' = IF p.null THEN <<>> ELSE FirstChars(p.s, 31)
     /\ last'.op = "setPartSeparator" =>
          \A v \in CopyInputs.separators :
            SetPartSeparator(v) =>
              partSeparatorBuffer' = IF v.null \/ v.s = <<>> THEN <<" ">>
                                     ELSE FirstChars(v.s, 7)
     /\ last'.op \in Reconfigured =>
          \A o \in CopyInputs.options :
            configure(o) =>
              /\ prefixBuffer' =
                   IF o.prefix.null THEN <<>> ELSE FirstChars(o.prefix.s, 31)
              /\ partSeparatorBuffer' =
                   IF o.partSeparator.null \/ o.partSeparator.s = <<>>
                   THEN <<" ">> ELSE FirstChars(o.partSeparator.s, 7)
     /\ Len(prefixBuffer') + 1 <= 32
     /\ Len(partSeparatorBuffer') + 1 <= 8
    ]_vars

\* a prefix and a separator stored at the full length their buffers hold
C11_Witness ==
  /\ last.op = "setPrefix"
  /\ Len(prefixBuffer) = 31 /\ prefixBuffer[31] = "1"
  /\ Len(partSeparatorBuffer) = 7 /\ partSeparatorBuffer[7] = "7"

\* C12: setPartSeparator, configure and begin given an empty or null
\* separator store a single space, whatever was stored before, and the stored
\* separator is empty in no reachable state.
C12_SeparatorNeverEmpty ==
  /\ [](partSeparatorBuffer # <<>>)
  /\ [][/\ last'.op = "setPartSeparator" =>
            \A v \in {NullPtr, CStr(<<>>)} :
              SetPartSeparator(v) => partSeparatorBuffer' = <<" ">>
       /\ last'.op \in Reconfigured =>
            \A o \in CopyInputs.options :
              ((o.partSeparator.null \/ Len(o.partSeparator.s) = 0) /\ configure(o))
                => partSeparatorBuffer' = <<" ">>
      ]_vars

\* an empty separator replaced a stored one of seven characters
C12_Witness ==
  /\ last.op = "setPartSeparator" /\ partSeparatorBuffer = <<" ">>
  /\ Len(sinks[1]) = 5 /\ sinks[1][3].k = "sep" /\ Len(sinks[1][3].txt) = 7

\* the message among the writes of a logAt call
Message(w) == w[LastIdx(w, "val")].txt

\* two logAt calls in a row with the same level and message, the first made
\* on a closed line (as a freshly attached writer has), both passing the gate
TwoLineCalls ==
  /\ last.op = "line" /\ last.pass /\ ~last.open
  /\ last'.op = "line" /\ last'.pass /\ last'.lv = last.lv
  /\ Message(Emitted) = Message(Emitted')

\* C13 as claimed: two logAt calls with identical arguments on a freshly
\* attached writer, the configuration unchanged between them, write two
\* byte-identical lines, in every configuration and whatever the clock reads.
C13_SameBytesAlways ==
  [][TwoLineCalls => Bytes(Emitted') = Bytes(Emitted)]_vars

\* C13 amended: the two lines are byte-identical in every configuration with
\* showMillis off, and with showMillis on when millis() returns the same
\* value for both headers.
C13_SameBytesSameClock ==
  [][(TwoLineCalls /\ (showMillis => clock' = clock)) =>
       Bytes(Emitted') = Bytes(Emitted)]_vars

\* two warn("y") calls with timestamps shown and the clock at 1234 for both
C13_Witness ==
  /\ last.op = "line" /\ last.pass /\ last.lv = Warn /\ showMillis /\ clock = 1234
  /\ Len(sinks[1]) = 6
  /\ Bytes(SubSeq(sinks[1], 1, 3)) = Bytes(SubSeq(sinks[1], 4, 6))
  /\ Bytes(Emitted) = <<"1", "2", "3", "4", " ", "W", "A", "R", "N", ":", " ", "y", "\n">>

\* C14: until begin has attached a stream, no call of the public interface
\* writes to any stream or opens a line, and no write call passes the gate:
\* no call reaches a write while no stream is attached.
C14_NothingBeforeBegin ==
  /\ out = NoSink => (~lineOpen /\ \A s \in Streams : sinks[s] = <<>>)
  /\ last.pass => out # NoSink

\* a write call, a setter and setEnabled were made before begin
C14_Witness ==
  /\ out = NoSink /\ last.op = "parts" /\ minLevel = Warn /\ ~enabled

Setters == {"setPrefix", "setMinLevel", "setPartSeparator"}

\* what the step wrote to the attached stream
Appended == SubSeq(sinks'[out], Len(sinks[out]) + 1, Len(sinks'[out]))

C16_OpenLineHasHeader ==
  lineOpen =>
    /\ out # NoSink
    /\ LET s == sinks[out]
           h == LastIdx(s, "hdr")
       IN  /\ h > 0
           /\ s[h].lv = activeLevel
           /\ \A i \in (h + 1)..Len(s) : s[i].k # "nl"

\* a line open at Warn on stream 2 after a line on stream 1 was abandoned
C16_Witness ==
  /\ lineOpen /\ activeLevel = Warn /\ out = 2
  /\ Kinds(sinks[1]) = <<"hdr", "val">> /\ sinks[1][1].lv = Info
  /\ Kinds(sinks[2]) = <<"hdr", "val">>

\* C18: on every stream each line break follows a header written after the
\* line break before it (or after the start of the stream), so no stream
\* holds more line breaks than headers.
C18_BreakFollowsHeader ==
  \A s \in Streams :
    /\ \A i \in DOMAIN sinks[s] :
         sinks[s][i].k = "nl" =>
           \E h \in 1..(i - 1) :
             /\ sinks[s][h].k = "hdr"
             /\ \A j \in h..(i - 1) : sinks[s][j].k # "nl"
    /\ Count(sinks[s], "nl") <= Count(sinks[s], "hdr")

\* println() on a closed line of stream 2: header, then the line break
C18_Witness ==
  /\ out = 2 /\ last.op = "newline" /\ last.pass /\ ~last.open
  /\ Kinds(sinks[2]) = <<"hdr", "nl">>
  /\ Kinds(sinks[1]) = <<"hdr", "val", "nl">>

\* C17: a passing terminating call (logAt, logParts, writelnAt with or
\* without a value) writes a line break last and leaves the line closed with
\* activeLevel Info; a passing writeAt at level L writes its value last, no
\* line break after it, and leaves the line open with activeLevel L.
C17_LineStateAfterCall ==
  last.pass =>
    /\ Len(Emitted) > 0
    /\ last.op \in Terminating =>
         /\ Emitted[Len(Emitted)].k = "nl"
         /\ ~lineOpen /\ activeLevel = Info
    /\ last.op = "print" =>
         /\ Emitted[Len(Emitted)].k = "val"
         /\ \A i \in DOMAIN Emitted :
              Emitted[i].k = "nl" => i < LastIdx(Emitted, "hdr")
         /\ lineOpen /\ activeLevel = last.lv

\* writelnAt(Warn, value) closed a line that was open at Warn
C17_Witness ==
  /\ last.pass /\ last.op = "println" /\ last.lv = Warn
  /\ last.open /\ last.active = Warn
  /\ ~lineOpen /\ activeLevel = Info

\* C19: setEnabled, configure and the setters write nothing to any stream;
\* setEnabled(false) and configure leave an open line closed without a line
\* break, and setEnabled(true) leaves lineOpen and activeLevel as they were.
C19_ConfigCallsWriteNothing ==
  [][/\ last'.op \in Setters \cup {"enable", "disable", "configure"} =>
          sinks' = sinks
     /\ (last'.op \in {"disable", "configure"} /\ lineOpen) =>
          /\ ~lineOpen' /\ activeLevel' = Info
          /\ sinks'[out][Len(sinks'[out])].k # "nl"
     /\ last'.op = "enable" => UNCHANGED <<lineOpen, activeLevel>>
    ]_vars

\* setEnabled(true) on a line open at Warn
C19_Witness ==
  /\ last.op = "enable" /\ last.open /\ last.active = Warn
  /\ lineOpen /\ activeLevel = Warn /\ enabled

\* C20: a writeAt or writelnAt call at the level None passes the gate exactly
\* if the writer is enabled, a stream is attached and the threshold is not
\* None, whichever of Debug..Error the threshold is, and the header it
\* writes carries the label LOG.
C20_NoneLevelPasses ==
  [][last'.op \in {"print", "println"} =>
       (WriteCall(GateInputs, None) =>
          /\ last'.pass <=> (enabled /\ out # NoSink /\ minLevel # None)
          /\ (enabled /\ out # NoSink /\ minLevel \in Debug..Error) => last'.pass
          /\ last'.pass =>
               /\ (~lineOpen \/ activeLevel # None) => Count(Appended, "hdr") = 1
               /\ \A i \in DOMAIN Appended :
                    Appended[i].k = "hdr" =>
                      Appended[i].txt = <<"L", "O", "G", ":", " ">>)
    ]_vars

\* writelnAt(None, "y") with threshold Error wrote the line 'LOG: y'
C20_Witness ==
  /\ last.op = "println" /\ last.pass /\ last.lv = None /\ ~last.open
  /\ minLevel = Error
  /\ Bytes(Emitted) = <<"L", "O", "G", ":", " ", "y", "\n">>

====
